---- MODULE Spec2Model ----
(***************************************************************************)
(* The Entrolytics node client (src/src/index.ts, src/src/errors.ts).      *)
(*                                                                         *)
(* Five specifications share the definitions below.                        *)
(*   Spec            the client object: construction, init, the property   *)
(*                   bag and every call that sends, up to its first await  *)
(*                   (the synchronous part that reads and writes the       *)
(*                   client's fields, throws configuration / validation    *)
(*                   errors, arms the timer and hands the request to       *)
(*                   fetch).                                               *)
(*   AsyncSpec       the calls in flight: the timer, the response, the     *)
(*                   reading of the body, the catch block and the finally  *)
(*                   block, with init() running between the steps of a     *)
(*                   call.                                                 *)
(*   ConcurrentSpec  several calls in flight together on one client.       *)
(*   ConstructSpec   construction under every process environment.         *)
(*   DeploySpec      setDeployment and getDeployment.                      *)
(*                                                                         *)
(* JavaScript values.  An optional value is <<>> (undefined, or a missing  *)
(* key) or <<v>>.  An object is a function from its keys to optional       *)
(* values; the property bag is a function from its keys to strings.        *)
(***************************************************************************)
EXTENDS Integers, Sequences, FiniteSets, TLC

VARIABLES options, properties, deploymentInfo, env, calls, last

\* options         this.options
\* properties      this.properties
\* deploymentInfo  this.deploymentInfo
\* env             process.env
\* calls           the calls in flight (AsyncSpec, ConcurrentSpec)
\* last            the latest operation of the client: its name, its arguments,
\*                 the configuration and property bag it found, and what it did
vars == <<options, properties, deploymentInfo, env, calls, last>>

(***************************************************************************)
(* Bounds and input domains                                                *)
(***************************************************************************)
\* number of calls that can be in flight together (AsyncSpec)
MaxCalls == 1
\* most keys in the argument of one init() call, or in the constructor's
MaxInitKeys == 1
\* number of calls in flight together in ConcurrentSpec
MaxConcurrent == 2

DEFAULT_TIMEOUT == 10000

None == <<>>
Some(v) == <<v>>

HostUrls == {"h"}
WebsiteIds == {"w"}
SessionIds == {"s0"}
Timeouts == {0, 50}

OptionKeys == {"hostUrl", "websiteId", "sessionId", "timeout"}

OptionValues(k) ==
  CASE k = "hostUrl" -> HostUrls
    [] k = "websiteId" -> WebsiteIds
    [] k = "sessionId" -> SessionIds
    [] k = "timeout" -> Timeouts

OptionChoices(k) == {None} \cup { Some(v) : v \in OptionValues(k) }

\* an EntrolyticsOptions argument: any subset of the keys, each undefined or set
OptionObjects ==
  { [k \in D |-> full[k]] :
      full \in { [hostUrl |-> h, websiteId |-> w, sessionId |-> s, timeout |-> t] :
                   h \in OptionChoices("hostUrl"), w \in OptionChoices("websiteId"),
                   s \in OptionChoices("sessionId"), t \in OptionChoices("timeout") },
      D \in SUBSET OptionKeys }

\* the arguments of init()
InitObjects == { o \in OptionObjects : Cardinality(DOMAIN o) <= MaxInitKeys }

PropertyKeys == {"plan", "sessionId"}

PropertyValues(k) == IF k = "sessionId" THEN {"", "s1"} ELSE {"pro"}

\* a property bag, and the argument of setProperties and identify
PropertyObjects ==
  UNION { { p \in [D -> UNION { PropertyValues(k) : k \in D }] :
              \A k \in D : p[k] \in PropertyValues(k) }
          : D \in SUBSET PropertyKeys }

(***************************************************************************)
(* JavaScript helpers                                                      *)
(***************************************************************************)
\* o.k, undefined when o has no key k
Get(o, k) == IF k \in DOMAIN o THEN o[k] ELSE None

\* { ...a, ...b }
Spread(a, b) == [k \in DOMAIN a \cup DOMAIN b |-> IF k \in DOMAIN b THEN b[k] ELSE a[k]]

\* truthiness of an optional string, number, object
TruthyStr(x) == x # None /\ x[1] # ""
TruthyNum(x) == x # None /\ x[1] # 0
TruthyObj(x) == x # None

\* a || b
OrStr(a, b) == IF TruthyStr(a) THEN a ELSE b
OrObj(a, b) == IF TruthyObj(a) THEN a ELSE b

\* JSON.stringify of an object: keys whose value is undefined are left out
JSONstringify(o) == [k \in {j \in DOMAIN o : o[j] # None} |-> o[k]]

(***************************************************************************)
(* errors.ts                                                               *)
(***************************************************************************)
ConfigurationError(field) ==
  [name |-> "ConfigurationError", code |-> "CONFIGURATION_ERROR", names |-> field]

ValidationError(field) ==
  [name |-> "ValidationError", code |-> "VALIDATION_ERROR", field |-> field]

\* new ApiError(message, statusCode, response, body)
ApiError(status, response, body) ==
  [name |-> "ApiError", code |-> "API_ERROR", statusCode |-> status,
   response |-> response, body |-> body]

TimeoutError(timeoutMs) ==
  [name |-> "TimeoutError", code |-> "TIMEOUT_ERROR", timeoutMs |-> timeoutMs]

RateLimitError(retryAfter) ==
  [name |-> "RateLimitError", code |-> "RATE_LIMIT_ERROR", statusCode |-> 429,
   retryAfter |-> retryAfter]

NetworkError(originalError) ==
  [name |-> "NetworkError", code |-> "NETWORK_ERROR", originalError |-> originalError]

\* isTimeoutError(error): error instanceof TimeoutError
isTimeoutError(error) == error.name = "TimeoutError"

\* what the platform throws: the DOMException of an aborted fetch, the
\* TypeError of a failed fetch or of a body read twice
AbortError == [name |-> "AbortError"]
TypeError(message) == [name |-> "TypeError", message |-> message]

(***************************************************************************)
(* The synchronous part of each call.  The result is what the call has     *)
(* done when it first suspends or throws: the error thrown (if any), the   *)
(* HTTP request handed to fetch (if any), the timer armed (if any) and the *)
(* property bag it leaves.                                                 *)
(***************************************************************************)
Thrown(e, props) ==
  [kind |-> "throw", error |-> Some(e), request |-> None, timer |-> None,
   properties |-> props]

Pending(path, body, ms, props) ==
  [kind |-> "pending", error |-> None,
   request |-> Some([path |-> path, body |-> body]), timer |-> Some(ms),
   properties |-> props]

Returned(value, props) ==
  [kind |-> "return", error |-> None, request |-> None, timer |-> None,
   properties |-> props, value |-> value]

\* send with the collectors' rule for the timer: this.options.timeout || 10000
sendTimeout_Falsy(opts) == IF TruthyNum(opts.timeout) THEN opts.timeout[1] ELSE DEFAULT_TIMEOUT

\* send: const { hostUrl, userAgent, timeout = 10000 } = this.options
sendTimeout(opts) == IF opts.timeout = None THEN DEFAULT_TIMEOUT ELSE opts.timeout[1]

\* send without the hostUrl check
send_NoHostUrlCheck(opts, props, payload, type) ==
  Pending("send",
          JSONstringify([type |-> Some(type), payload |-> Some(JSONstringify(payload))]),
          sendTimeout(opts), props)

\* send, up to `await fetch(...)`.  The endpoint variant and the User-Agent
\* header only select the URL and a header of the request; they are left out.
send(opts, props, payload, type) ==
  IF ~TruthyStr(opts.hostUrl)
    THEN Thrown(ConfigurationError("hostUrl"), props)
    ELSE Pending("send",
                 JSONstringify([type |-> Some(type), payload |-> Some(JSONstringify(payload))]),
                 sendTimeout(opts), props)

\* trackPageView validating url before it looks at websiteId
trackPageView_ValidatesFirst(opts, props, o) ==
  IF ~TruthyStr(Get(o, "url"))
    THEN Thrown(ValidationError("url"), props)
    ELSE IF ~TruthyStr(opts.websiteId)
      THEN Thrown(ConfigurationError("websiteId"), props)
      ELSE send(opts, props, Spread([website |-> opts.websiteId], o), "event")

trackPageView(opts, props, o) ==
  IF ~TruthyStr(opts.websiteId)
    THEN Thrown(ConfigurationError("websiteId"), props)
    ELSE IF ~TruthyStr(Get(o, "url"))
      THEN Thrown(ValidationError("url"), props)
      ELSE send(opts, props, Spread([website |-> opts.websiteId], o), "event")

\* trackEvent validating url, as trackPageView does, instead of name
trackEvent_ValidatesUrl(opts, props, o) ==
  IF ~TruthyStr(opts.websiteId)
    THEN Thrown(ConfigurationError("websiteId"), props)
    ELSE IF ~TruthyStr(Get(o, "url"))
      THEN Thrown(ValidationError("url"), props)
      ELSE send(opts, props, Spread([website |-> opts.websiteId], o), "event")

trackEvent(opts, props, o) ==
  IF ~TruthyStr(opts.websiteId)
    THEN Thrown(ConfigurationError("websiteId"), props)
    ELSE IF ~TruthyStr(Get(o, "name"))
      THEN Thrown(ValidationError("name"), props)
      ELSE send(opts, props, Spread([website |-> opts.websiteId], o), "event")

\* track with the embedded data winning: data: event.data || eventData
track_EmbeddedDataWins(opts, props, event, eventData) ==
  IF ~TruthyStr(opts.websiteId)
    THEN Thrown(ConfigurationError("websiteId"), props)
    ELSE IF event.type = "string"
      THEN send(opts, props,
                [website |-> opts.websiteId, name |-> Some(event.name), data |-> eventData],
                "event")
      ELSE send(opts, props,
                Spread(Spread([website |-> opts.websiteId], event.options),
                       [data |-> OrObj(Get(event.options, "data"), eventData)]),
                "event")

\* event is [type |-> "string", name |-> n] or [type |-> "object", options |-> o]
track(opts, props, event, eventData) ==
  IF ~TruthyStr(opts.websiteId)
    THEN Thrown(ConfigurationError("websiteId"), props)
    ELSE IF event.type = "string"
      THEN send(opts, props,
                [website |-> opts.websiteId, name |-> Some(event.name), data |-> eventData],
                "event")
      ELSE send(opts, props,
                Spread(Spread([website |-> opts.websiteId], event.options),
                       [data |-> OrObj(eventData, Get(event.options, "data"))]),
                "event")

\* p.sessionId of an IdentifyOptions argument (its values are plain strings)
PropGet(p, k) == IF k \in DOMAIN p THEN Some(p[k]) ELSE None

\* identify with the configured session winning: session: sessionId || properties.sessionId
identify_ConfiguredSessionWins(opts, props, p) ==
  IF ~TruthyStr(opts.websiteId)
    THEN Thrown(ConfigurationError("websiteId"), props)
    ELSE LET merged == Spread(props, p)
         IN  send(opts, merged,
                  [website |-> opts.websiteId,
                   session |-> OrStr(opts.sessionId, PropGet(p, "sessionId")),
                   data |-> Some(merged)],
                  "identify")

identify(opts, props, p) ==
  IF ~TruthyStr(opts.websiteId)
    THEN Thrown(ConfigurationError("websiteId"), props)
    ELSE LET merged == Spread(props, p)
         IN  send(opts, merged,
                  [website |-> opts.websiteId,
                   session |-> OrStr(PropGet(p, "sessionId"), opts.sessionId),
                   data |-> Some(merged)],
                  "identify")

\* the collectors: setTimeout(..., this.options.timeout || 10000)
collectTimeout(opts) == IF TruthyNum(opts.timeout) THEN opts.timeout[1] ELSE DEFAULT_TIMEOUT

VitalKeys ==
  {"metric", "value", "rating", "delta", "id", "navigationType", "attribution", "url", "path"}

trackVital(opts, props, o) ==
  IF ~TruthyStr(opts.websiteId)
    THEN Thrown(ConfigurationError("websiteId"), props)
    ELSE IF ~TruthyStr(opts.hostUrl)
      THEN Thrown(ConfigurationError("hostUrl"), props)
      ELSE Pending("vitals",
                   JSONstringify(Spread([website |-> opts.websiteId],
                                        [k \in VitalKeys |-> Get(o, k)])),
                   collectTimeout(opts), props)

\* trackVitalsBatch with an entry's own url and path winning over the batch's
trackVitalsBatch_EntryWins(opts, props, o) ==
  IF ~TruthyStr(opts.websiteId)
    THEN Thrown(ConfigurationError("websiteId"), props)
    ELSE IF ~TruthyStr(opts.hostUrl)
      THEN Thrown(ConfigurationError("hostUrl"), props)
      ELSE Pending("vitals",
                   JSONstringify(
                     [website |-> opts.websiteId,
                      vitals |-> Some([i \in 1..Len(o.vitals) |->
                                   JSONstringify(Spread(
                                     [url |-> Get(o, "url"), path |-> Get(o, "path")],
                                     o.vitals[i]))])]),
                   collectTimeout(opts), props)

trackVitalsBatch(opts, props, o) ==
  IF ~TruthyStr(opts.websiteId)
    THEN Thrown(ConfigurationError("websiteId"), props)
    ELSE IF ~TruthyStr(opts.hostUrl)
      THEN Thrown(ConfigurationError("hostUrl"), props)
      ELSE Pending("vitals",
                   JSONstringify(
                     [website |-> opts.websiteId,
                      vitals |-> Some([i \in 1..Len(o.vitals) |->
                                   JSONstringify(Spread(o.vitals[i],
                                     [url |-> Get(o, "url"), path |-> Get(o, "path")]))])]),
                   collectTimeout(opts), props)

trackForm(opts, props, o) ==
  IF ~TruthyStr(opts.websiteId)
    THEN Thrown(ConfigurationError("websiteId"), props)
    ELSE IF ~TruthyStr(opts.hostUrl)
      THEN Thrown(ConfigurationError("hostUrl"), props)
      ELSE Pending("forms", JSONstringify(Spread([website |-> opts.websiteId], o)),
                   collectTimeout(opts), props)

trackFormBatch(opts, props, o) ==
  IF ~TruthyStr(opts.websiteId)
    THEN Thrown(ConfigurationError("websiteId"), props)
    ELSE IF ~TruthyStr(opts.hostUrl)
      THEN Thrown(ConfigurationError("hostUrl"), props)
      ELSE Pending("forms",
                   JSONstringify(
                     [website |-> opts.websiteId,
                      events |-> Some([i \in 1..Len(o.events) |-> JSONstringify(o.events[i])])]),
                   collectTimeout(opts), props)

(***************************************************************************)
(* The property bag                                                        *)
(***************************************************************************)
setProperty(props, key, value) ==
  [k \in DOMAIN props \cup {key} |-> IF k = key THEN value ELSE props[k]]

setProperties(props, p) == Spread(props, p)

getProperties(props) == Spread(<<>>, props)

reset(props) == <<>>

\* clearProperty deleting the whole bag
clearProperty_DropsAll(props, key) == <<>>

clearProperty(props, key) == [k \in DOMAIN props \ {key} |-> props[k]]

(***************************************************************************)
(* Construction and init                                                   *)
(***************************************************************************)
\* the variables of process.env that detectDeploymentInfo reads
EnvVars ==
  {"VERCEL_DEPLOYMENT_ID", "DEPLOY_ID", "CF_PAGES_COMMIT_SHA",
   "VERCEL_GIT_COMMIT_SHA", "COMMIT_REF", "GITHUB_SHA",
   "VERCEL_GIT_COMMIT_REF", "BRANCH", "CF_PAGES_BRANCH", "GITHUB_REF_NAME",
   "VERCEL_URL", "DEPLOY_URL", "CF_PAGES_URL"}

\* a variable is unset, set to the empty string, or set to a value (its own
\* name, so that a detected value tells which variable it was read from)
EnvChoices(k) == {None, Some(""), Some(k)}

\* no variable set
NoEnv == [k \in EnvVars |-> None]

\* the variables read for deployId, gitSha, gitBranch, deployUrl
EnvGroups ==
  { {"VERCEL_DEPLOYMENT_ID", "DEPLOY_ID", "CF_PAGES_COMMIT_SHA"},
    {"VERCEL_GIT_COMMIT_SHA", "COMMIT_REF", "CF_PAGES_COMMIT_SHA", "GITHUB_SHA"},
    {"VERCEL_GIT_COMMIT_REF", "BRANCH", "CF_PAGES_BRANCH", "GITHUB_REF_NAME"},
    {"VERCEL_URL", "DEPLOY_URL", "CF_PAGES_URL"} }

\* process.env: every setting of the variables read for one field, the other
\* variables unset
Envs ==
  UNION { { [k \in EnvVars |-> IF k \in G THEN (IF f[k] = "unset" THEN None
                                                ELSE IF f[k] = "empty" THEN Some("")
                                                ELSE Some(k))
                               ELSE None] :
              f \in [G -> {"unset", "empty", "set"}] }
          : G \in EnvGroups }

\* `https://${host}`
Https(host) == CASE host = "VERCEL_URL" -> "https://VERCEL_URL"

\* detectDeploymentInfo trying the generic DEPLOY_ID before the platform's variable
detectDeploymentInfo_GenericFirst(e) ==
  [deployId |->
     OrStr(OrStr(OrStr(e["DEPLOY_ID"], e["VERCEL_DEPLOYMENT_ID"]), e["CF_PAGES_COMMIT_SHA"]),
           None),
   gitSha |->
     OrStr(OrStr(OrStr(OrStr(e["VERCEL_GIT_COMMIT_SHA"], e["COMMIT_REF"]),
                       e["CF_PAGES_COMMIT_SHA"]), e["GITHUB_SHA"]),
           None),
   gitBranch |->
     OrStr(OrStr(OrStr(OrStr(e["VERCEL_GIT_COMMIT_REF"], e["BRANCH"]),
                       e["CF_PAGES_BRANCH"]), e["GITHUB_REF_NAME"]),
           None),
   deployUrl |->
     IF TruthyStr(e["VERCEL_URL"])
       THEN Some(Https(e["VERCEL_URL"][1]))
       ELSE OrStr(OrStr(e["DEPLOY_URL"], e["CF_PAGES_URL"]), None)]

\* detectDeploymentInfo(), reading process.env = e
detectDeploymentInfo(e) ==
  [deployId |->
     OrStr(OrStr(OrStr(e["VERCEL_DEPLOYMENT_ID"], e["DEPLOY_ID"]), e["CF_PAGES_COMMIT_SHA"]),
           None),
   gitSha |->
     OrStr(OrStr(OrStr(OrStr(e["VERCEL_GIT_COMMIT_SHA"], e["COMMIT_REF"]),
                       e["CF_PAGES_COMMIT_SHA"]), e["GITHUB_SHA"]),
           None),
   gitBranch |->
     OrStr(OrStr(OrStr(OrStr(e["VERCEL_GIT_COMMIT_REF"], e["BRANCH"]),
                       e["CF_PAGES_BRANCH"]), e["GITHUB_REF_NAME"]),
           None),
   deployUrl |->
     IF TruthyStr(e["VERCEL_URL"])
       THEN Some(Https(e["VERCEL_URL"][1]))
       ELSE OrStr(OrStr(e["DEPLOY_URL"], e["CF_PAGES_URL"]), None)]

\* this.options = { timeout: 10000, endpoint: 'standard', deployId: ..., gitSha: ...,
\*                  gitBranch: ..., ...options }, with process.env = e
Constructor(e, o) ==
  LET detectedDeployment == detectDeploymentInfo(e)
  IN  Spread([hostUrl |-> None, websiteId |-> None, sessionId |-> None,
              timeout |-> Some(DEFAULT_TIMEOUT),
              deployId |-> detectedDeployment.deployId,
              gitSha |-> detectedDeployment.gitSha,
              gitBranch |-> detectedDeployment.gitBranch], o)

\* this.options = { ...this.options, ...options }
initOptions(opts, o) == Spread(opts, o)

\* setDeployment(deployment) on the client (opts, info): the two fields it leaves
setDeployment(opts, info, deployment) ==
  [deploymentInfo |-> Spread(info, deployment),
   options |->
     [opts EXCEPT !.deployId = OrStr(Get(deployment, "deployId"), opts.deployId),
                  !.gitSha = OrStr(Get(deployment, "gitSha"), opts.gitSha),
                  !.gitBranch = OrStr(Get(deployment, "gitBranch"), opts.gitBranch)]]

\* getDeployment(): { ...this.deploymentInfo }
getDeployment(info) == Spread(<<>>, info)

(***************************************************************************)
(* Arguments of the calls                                                  *)
(***************************************************************************)
EventDatas == { <<>>, [id |-> "a"], [id |-> "b"] }

PageOptions == { <<>>, [url |-> None], [url |-> Some("")], [url |-> Some("/p")] }

EventOptions ==
  { <<>>, [name |-> Some("")], [name |-> Some("click")] }
  \cup { [name |-> Some("click"), data |-> Some(d)] : d \in {<<>>, [id |-> "a"]} }

TrackEvents ==
  { [type |-> "string", name |-> n] : n \in {"click"} }
  \cup { [type |-> "object", options |-> o] : o \in EventOptions \cup {[url |-> Some("/p")]} }

OptionalEventDatas == {None} \cup { Some(d) : d \in EventDatas }

SendPayloads == { [website |-> Some("w")], [website |-> Some("w"), name |-> Some("click")] }

SendTypes == {None, Some("event"), Some("identify")}

Vitals ==
  { [metric |-> Some("LCP"), value |-> Some(1), rating |-> Some("good")],
    [metric |-> Some("CLS"), value |-> Some(1), rating |-> Some("poor"),
     url |-> Some("/own"), path |-> Some("/own")] }

VitalOptions == Vitals

VitalsBatchOptions ==
  { [vitals |-> vs] : vs \in {<<>>} \cup { <<v>> : v \in Vitals } }
  \cup { [vitals |-> <<v>>, url |-> Some("/b"), path |-> Some("/b")] : v \in Vitals }

FormOptions ==
  { [eventType |-> Some("start"), formId |-> Some("f"), urlPath |-> Some("/s")],
    [eventType |-> Some("submit"), formId |-> Some("f"), urlPath |-> Some("/s"),
     success |-> Some(TRUE)] }

FormBatchOptions == { [events |-> es] : es \in {<<>>} \cup { <<e>> : e \in FormOptions } }

Ops ==
  {"send", "trackPageView", "trackEvent", "track", "identify",
   "trackVital", "trackVitalsBatch", "trackForm", "trackFormBatch"}

\* the synchronous part of call op with arguments a, on the client (opts, props)
Invoke(op, a, opts, props) ==
  CASE op = "send" ->
         send(opts, props, a.payload, IF a.type = None THEN "event" ELSE a.type[1])
    [] op = "trackPageView" -> trackPageView(opts, props, a)
    [] op = "trackEvent" -> trackEvent(opts, props, a)
    [] op = "track" -> track(opts, props, a.event, a.eventData)
    [] op = "identify" -> identify(opts, props, a)
    [] op = "trackVital" -> trackVital(opts, props, a)
    [] op = "trackVitalsBatch" -> trackVitalsBatch(opts, props, a)
    [] op = "trackForm" -> trackForm(opts, props, a)
    [] op = "trackFormBatch" -> trackFormBatch(opts, props, a)

Arguments(op) ==
  CASE op = "send" -> { [payload |-> p, type |-> t] : p \in SendPayloads, t \in SendTypes }
    [] op = "trackPageView" -> PageOptions
    [] op = "trackEvent" -> EventOptions
    [] op = "track" -> { [event |-> e, eventData |-> d] : e \in TrackEvents, d \in OptionalEventDatas }
    [] op = "identify" -> PropertyObjects
    [] op = "trackVital" -> VitalOptions
    [] op = "trackVitalsBatch" -> VitalsBatchOptions
    [] op = "trackForm" -> FormOptions
    [] op = "trackFormBatch" -> FormBatchOptions

(***************************************************************************)
(* Spec: the client object                                                 *)
(***************************************************************************)
Idle == [pc |-> "idle"]

Defaults ==
  [hostUrl |-> None, websiteId |-> None, sessionId |-> None, timeout |-> Some(DEFAULT_TIMEOUT),
   deployId |-> None, gitSha |-> None, gitBranch |-> None]

NoCall ==
  [op |-> "new", args |-> None, opts0 |-> Defaults, props0 |-> <<>>,
   res |-> Returned(None, <<>>)]

Init ==
  /\ env = NoEnv
  /\ \E o \in OptionObjects : options = Constructor(env, o)
  /\ properties = <<>>
  /\ deploymentInfo = detectDeploymentInfo(env)
  /\ calls = [i \in 1..MaxCalls |-> Idle]
  /\ last = NoCall

\* what an operation did: the configuration and the bag it found, and its result
Record(op, a, res) ==
  /\ last' = [op |-> op, args |-> a, opts0 |-> options, props0 |-> properties, res |-> res]
  /\ properties' = res.properties
  /\ UNCHANGED <<deploymentInfo, env>>

init(o) ==
  /\ options' = initOptions(options, o)
  /\ Record("init", None, Returned(None, properties))
  /\ UNCHANGED calls

Call(op) ==
  \E a \in Arguments(op) :
    /\ Record(op, a, Invoke(op, a, options, properties))
    /\ UNCHANGED <<options, calls>>

SetProperty ==
  \E k \in PropertyKeys : \E v \in PropertyValues(k) :
    /\ Record("setProperty", [key |-> k, value |-> v],
              Returned(None, setProperty(properties, k, v)))
    /\ UNCHANGED <<options, calls>>

SetProperties ==
  \E p \in PropertyObjects :
    /\ Record("setProperties", p, Returned(None, setProperties(properties, p)))
    /\ UNCHANGED <<options, calls>>

GetProperties ==
  /\ Record("getProperties", None, Returned(Some(getProperties(properties)), properties))
  /\ UNCHANGED <<options, calls>>

Reset ==
  /\ Record("reset", None, Returned(None, reset(properties)))
  /\ UNCHANGED <<options, calls>>

ClearProperty ==
  \E k \in PropertyKeys :
    /\ Record("clearProperty", [key |-> k], Returned(None, clearProperty(properties, k)))
    /\ UNCHANGED <<options, calls>>

Init_ == \E o \in InitObjects : init(o)
Send == Call("send")
TrackPageView == Call("trackPageView")
TrackEvent == Call("trackEvent")
Track == Call("track")
Identify == Call("identify")
TrackVital == Call("trackVital")
TrackVitalsBatch == Call("trackVitalsBatch")
TrackForm == Call("trackForm")
TrackFormBatch == Call("trackFormBatch")

Next ==
  \/ Init_
  \/ Send
  \/ TrackPageView
  \/ TrackEvent
  \/ Track
  \/ Identify
  \/ TrackVital
  \/ TrackVitalsBatch
  \/ TrackForm
  \/ TrackFormBatch
  \/ SetProperty
  \/ SetProperties
  \/ GetProperties
  \/ Reset
  \/ ClearProperty

Spec == Init /\ [][Next]_vars

(***************************************************************************)
(* Claims about the client object (checked under Spec)                     *)
(***************************************************************************)
TrackingCalls == Ops \ {"send"}

IsCall == last.op \in Ops

Failed(e) == last.res.kind = "throw" /\ last.res.error = Some(e)

NoRequest == last.res.request = None

\* the payload of the request the latest call handed to fetch
SentBody == last.res.request[1].body
SentPayload == SentBody.payload[1]

\* the error the tracking calls raise before they look at hostUrl, if any
EarlierError ==
  IF last.op \in TrackingCalls /\ ~TruthyStr(last.opts0.websiteId)
    THEN Some(ConfigurationError("websiteId"))
    ELSE IF last.op = "trackPageView" /\ ~TruthyStr(Get(last.args, "url"))
      THEN Some(ValidationError("url"))
      ELSE IF last.op = "trackEvent" /\ ~TruthyStr(Get(last.args, "name"))
        THEN Some(ValidationError("name"))
        ELSE None

\* C1 (as stated): with hostUrl absent, every send-family call fails with the
\* configuration error naming hostUrl and issues no HTTP request, whatever
\* websiteId and the arguments are.
C1_AsStated ==
  (IsCall /\ last.opts0.hostUrl = None)
    => (Failed(ConfigurationError("hostUrl")) /\ NoRequest)

\* C1 (amended): with hostUrl absent, every send-family call fails without
\* issuing an HTTP request; the error is the configuration error naming hostUrl
\* unless the call fails earlier, on an absent websiteId (tracking calls) or on
\* an empty url / name (trackPageView / trackEvent).
C1_HostUrlRequired ==
  (IsCall /\ last.opts0.hostUrl = None)
    => /\ NoRequest
       /\ last.res.kind = "throw"
       /\ last.res.error = (IF EarlierError # None THEN EarlierError
                            ELSE Some(ConfigurationError("hostUrl")))

C1_Witness ==
  /\ last.op = "identify"
  /\ last.opts0.hostUrl = None
  /\ last.opts0.websiteId # None
  /\ Failed(ConfigurationError("hostUrl"))

\* C2: with websiteId absent, every tracking call fails with the configuration
\* error naming websiteId, whatever hostUrl and the arguments are.
C2_WebsiteIdRequired ==
  (last.op \in TrackingCalls /\ last.opts0.websiteId = None)
    => Failed(ConfigurationError("websiteId"))

C2_Witness ==
  /\ last.op = "trackPageView"
  /\ last.args = <<>>
  /\ last.opts0.websiteId = None
  /\ last.opts0.hostUrl = None
  /\ Failed(ConfigurationError("websiteId"))

\* C3: an operation that fails with a configuration or validation error has
\* issued no HTTP request and has left the configuration and the property bag
\* as they were before the call.
C3_FailFastNoSideEffects ==
  (last.res.kind = "throw"
     /\ last.res.error[1].name \in {"ConfigurationError", "ValidationError"})
    => /\ NoRequest
       /\ options = last.opts0
       /\ properties = last.props0

\* C4: with websiteId configured, trackPageView with an empty or absent url
\* fails with the validation error naming url, and trackEvent with an empty or
\* absent name with the one naming name, without an HTTP request, whether or
\* not hostUrl is configured.
C4_Validation ==
  /\ (last.op = "trackPageView" /\ last.opts0.websiteId # None
        /\ Get(last.args, "url") \in {None, Some("")})
       => (Failed(ValidationError("url")) /\ NoRequest)
  /\ (last.op = "trackEvent" /\ last.opts0.websiteId # None
        /\ Get(last.args, "name") \in {None, Some("")})
       => (Failed(ValidationError("name")) /\ NoRequest)

C4_Witness ==
  /\ last.op = "trackEvent"
  /\ last.opts0.websiteId # None
  /\ last.opts0.hostUrl = None
  /\ last.args = [name |-> Some("")]
  /\ Failed(ValidationError("name"))

\* C8: setProperty upserts one key, setProperties overwrites key by key,
\* clearProperty removes one key (nothing when it is absent), reset empties the
\* bag, getProperties returns the bag as it is; none of them issues an HTTP
\* request.
C8_PropertyBag ==
  LET before == last.props0
      same(K) == \A k \in K : k \in DOMAIN properties /\ properties[k] = before[k]
  IN  /\ last.op = "setProperty" =>
           /\ DOMAIN properties = DOMAIN before \cup {last.args.key}
           /\ properties[last.args.key] = last.args.value
           /\ same(DOMAIN before \ {last.args.key})
      /\ last.op = "setProperties" =>
           /\ DOMAIN properties = DOMAIN before \cup DOMAIN last.args
           /\ \A k \in DOMAIN last.args : properties[k] = last.args[k]
           /\ same(DOMAIN before \ DOMAIN last.args)
      /\ last.op = "clearProperty" =>
           /\ DOMAIN properties = DOMAIN before \ {last.args.key}
           /\ same(DOMAIN before \ {last.args.key})
           /\ (last.args.key \notin DOMAIN before => properties = before)
      /\ last.op = "reset" => DOMAIN properties = {}
      /\ last.op = "getProperties" =>
           /\ last.res.value = Some(properties)
           /\ properties = before
      /\ last.op \in {"setProperty", "setProperties", "clearProperty", "reset",
                      "getProperties"} =>
           (NoRequest /\ last.res.kind = "return")

C8_Witness ==
  /\ last.op = "clearProperty"
  /\ last.args.key = "plan"
  /\ DOMAIN last.props0 = {"plan", "sessionId"}
  /\ DOMAIN properties = {"sessionId"}

IdentifySent ==
  /\ last.op = "identify"
  /\ last.opts0.websiteId # None
  /\ last.opts0.hostUrl # None

\* what identify does besides choosing the session
IdentifyMergesAndSends ==
  /\ last.res.kind = "pending"
  /\ DOMAIN properties = DOMAIN last.props0 \cup DOMAIN last.args
  /\ \A k \in DOMAIN properties :
       properties[k] = (IF k \in DOMAIN last.args THEN last.args[k] ELSE last.props0[k])
  /\ SentBody.type = Some("identify")
  /\ SentPayload.data = Some(properties)
  /\ options = last.opts0

\* C9 (as stated): the session sent is props.sessionId whenever it is present.
C9_AsStated ==
  IdentifySent =>
    /\ IdentifyMergesAndSends
    /\ Get(SentPayload, "session") =
         (IF "sessionId" \in DOMAIN last.args THEN Some(last.args.sessionId)
          ELSE last.opts0.sessionId)

\* C9 (amended): identify merges props into the bag and sends the whole bag as
\* data; the session sent is props.sessionId when it is present and not the
\* empty string, and the configured session id otherwise; the configuration is
\* not changed.
C9_Identify ==
  IdentifySent =>
    /\ IdentifyMergesAndSends
    /\ Get(SentPayload, "session") =
         (IF "sessionId" \in DOMAIN last.args /\ last.args.sessionId # ""
            THEN Some(last.args.sessionId)
            ELSE last.opts0.sessionId)

C9_Witness ==
  /\ IdentifySent
  /\ last.args = [sessionId |-> "s1", plan |-> "pro"]
  /\ last.opts0.sessionId = Some("s0")
  /\ SentPayload.session = Some("s1")
  /\ options.sessionId = Some("s0")

TrackSent ==
  /\ last.op = "track"
  /\ last.opts0.websiteId # None
  /\ last.opts0.hostUrl # None

\* C10: track(n, d) sends what track({name: n}, d) sends (no data when d is
\* omitted); track(obj, d2) sends d2 when a data argument is given, and the data
\* embedded in obj only when none is given.
C10_Track ==
  TrackSent =>
    LET e == last.args.event
        d == last.args.eventData
        other(ev) == track(last.opts0, last.props0, ev, d)
    IN  /\ last.res.kind = "pending"
        /\ e.type = "string" =>
             /\ last.res = other([type |-> "object", options |-> [name |-> Some(e.name)]])
             /\ (d = None => "data" \notin DOMAIN SentPayload)
        /\ (e.type = "object" /\ e.options = [name |-> Some("click")]) =>
             /\ last.res = other([type |-> "string", name |-> "click"])
             /\ (d = None => "data" \notin DOMAIN SentPayload)
        /\ e.type = "object" =>
             Get(SentPayload, "data") = (IF d # None THEN d ELSE Get(e.options, "data"))

C10_Witness ==
  /\ TrackSent
  /\ last.args.event = [type |-> "object",
                        options |-> [name |-> Some("click"), data |-> Some([id |-> "a"])]]
  /\ last.args.eventData = Some([id |-> "b"])
  /\ SentPayload.data = Some([id |-> "b"])

Collectors == {"trackVital", "trackVitalsBatch", "trackForm", "trackFormBatch"}

CollectorSent == last.op \in Collectors /\ last.res.kind = "pending"

\* C14: under every configured timeout (absent and 0 included) the collectors
\* arm their timer with the duration send arms its timer with.
C14_SameTimer ==
  CollectorSent =>
    last.res.timer = send(last.opts0, last.props0, [website |-> last.opts0.websiteId],
                          "event").timer

VitalsBatchSent == last.op = "trackVitalsBatch" /\ last.res.kind = "pending"

SentVitals == SentBody.vitals[1]

\* one entry is sent per vital, in order, with the vital's fields other than
\* url and path
EntriesSentInOrder ==
  /\ Len(SentVitals) = Len(last.args.vitals)
  /\ \A i \in 1..Len(SentVitals) :
       \A k \in (DOMAIN SentVitals[i] \cup DOMAIN last.args.vitals[i]) \ {"url", "path"} :
         Get(SentVitals[i], k) = Get(last.args.vitals[i], k)

DeployKeys == {"deployId", "gitSha", "gitBranch"}

DeploymentKeys == DeployKeys \cup {"deployUrl"}

\* a deployment field in an argument: undefined, empty, or a value
DeployChoices(v) == {None, Some(""), Some(v)}

\* constructor arguments that set deployment fields
DeployOptionObjects ==
  { [k \in D |-> full[k]] :
      full \in [DeployKeys -> DeployChoices("arg")],
      D \in { K \in SUBSET DeployKeys : Cardinality(K) <= MaxInitKeys } }

\* the arguments of setDeployment: nothing, one field, the three fields together
Deployments ==
  { <<>>,
    [deployId |-> Some("dpl"), gitSha |-> Some("abc"), gitBranch |-> Some("main")] }
  \cup { [k \in {f} |-> v] : f \in DeploymentKeys, v \in DeployChoices("abc") }

\* a Vercel build
VercelEnv ==
  [k \in EnvVars |->
     IF k \in {"VERCEL_DEPLOYMENT_ID", "VERCEL_GIT_COMMIT_SHA", "VERCEL_GIT_COMMIT_REF",
               "VERCEL_URL"}
       THEN Some(k) ELSE None]

\* new Entrolytics(o) with process.env in E and o in A
Construct(E, A) ==
  /\ env \in E
  /\ \E o \in A :
       /\ options = Constructor(env, o)
       /\ last = [op |-> "new", args |-> o, opts0 |-> Defaults,
                  info0 |-> detectDeploymentInfo(NoEnv), res |-> None]
  /\ properties = <<>>
  /\ deploymentInfo = detectDeploymentInfo(env)
  /\ calls = [i \in 1..MaxCalls |-> Idle]

SetDeployment ==
  \E d \in Deployments :
    LET r == setDeployment(options, deploymentInfo, d)
    IN  /\ deploymentInfo' = r.deploymentInfo
        /\ options' = r.options
        /\ last' = [op |-> "setDeployment", args |-> d, opts0 |-> options,
                    info0 |-> deploymentInfo, res |-> None]
        /\ UNCHANGED <<properties, env, calls>>

GetDeployment ==
  /\ last' = [op |-> "getDeployment", args |-> <<>>, opts0 |-> options,
              info0 |-> deploymentInfo, res |-> Some(getDeployment(deploymentInfo))]
  /\ UNCHANGED <<options, properties, deploymentInfo, env, calls>>

ConstructInit == Construct(Envs, DeployOptionObjects)

ConstructNext == GetDeployment

ConstructSpec == ConstructInit /\ [][ConstructNext]_vars

DeployInit == Construct({NoEnv, VercelEnv}, {<<>>, [deployId |-> Some("arg")]})

DeployNext ==
  \/ SetDeployment
  \/ GetDeployment

DeploySpec == DeployInit /\ [][DeployNext]_vars

(***************************************************************************)
(* Claims about the deployment information                                 *)
(***************************************************************************)
NonEmpty(x) == x # None /\ x[1] # ""

\* C11: after setDeployment(d) each of deployId, gitSha and gitBranch has, in
\* the deployment information and in the configuration, the incoming value when
\* that value is non-empty and the value it had before otherwise.
C11_SetDeployment ==
  last.op = "setDeployment" =>
    \A f \in DeployKeys :
      LET incoming == Get(last.args, f)
      IN  /\ deploymentInfo[f] = (IF NonEmpty(incoming) THEN incoming ELSE last.info0[f])
          /\ options[f] = (IF NonEmpty(incoming) THEN incoming ELSE last.opts0[f])

DeployIdOrder == <<"VERCEL_DEPLOYMENT_ID", "DEPLOY_ID", "CF_PAGES_COMMIT_SHA">>
GitShaOrder == <<"VERCEL_GIT_COMMIT_SHA", "COMMIT_REF", "CF_PAGES_COMMIT_SHA", "GITHUB_SHA">>
GitBranchOrder == <<"VERCEL_GIT_COMMIT_REF", "BRANCH", "CF_PAGES_BRANCH", "GITHUB_REF_NAME">>
DeployUrlOrder == <<"VERCEL_URL", "DEPLOY_URL", "CF_PAGES_URL">>

RECURSIVE FirstNonEmpty(_)
\* the first variable of the order that is set and not empty, if there is one
FirstNonEmpty(order) ==
  IF order = <<>> THEN None
  ELSE IF NonEmpty(env[Head(order)]) THEN Some(Head(order))
  ELSE FirstNonEmpty(Tail(order))

\* the value of that variable
Detected(order) ==
  IF FirstNonEmpty(order) = None THEN None ELSE env[FirstNonEmpty(order)[1]]

DetectedField(f) ==
  CASE f = "deployId" -> Detected(DeployIdOrder)
    [] f = "gitSha" -> Detected(GitShaOrder)
    [] f = "gitBranch" -> Detected(GitBranchOrder)

OnlyDeployIdSet == env = [NoEnv EXCEPT !["DEPLOY_ID"] = Some("DEPLOY_ID")]

\* C12: the constructor sets each deployment field to the first non-empty
\* variable of its priority order (deployId: VERCEL_DEPLOYMENT_ID, DEPLOY_ID,
\* CF_PAGES_COMMIT_SHA), in the deployment information and in the configuration,
\* where a constructor argument overrides it; with only DEPLOY_ID set
\* getDeployment() reports it as deployId.  deployUrl, which the configuration
\* does not mirror, follows VERCEL_URL (as an https URL), DEPLOY_URL, CF_PAGES_URL.
C12_Detection ==
  /\ \A f \in DeployKeys : deploymentInfo[f] = DetectedField(f)
  /\ deploymentInfo.deployUrl =
       (IF FirstNonEmpty(DeployUrlOrder) = Some("VERCEL_URL")
          THEN Some("https://VERCEL_URL") ELSE Detected(DeployUrlOrder))
  /\ last.op = "new" =>
       \A f \in DeployKeys :
         options[f] = (IF f \in DOMAIN last.args THEN last.args[f] ELSE DetectedField(f))
  /\ last.op = "getDeployment" =>
       /\ last.res = Some(deploymentInfo)
       /\ OnlyDeployIdSet => last.res[1].deployId = Some("DEPLOY_ID")

C12_Witness ==
  /\ last.op = "getDeployment"
  /\ env["VERCEL_DEPLOYMENT_ID"] = Some("")
  /\ env["DEPLOY_ID"] = Some("DEPLOY_ID")
  /\ env["CF_PAGES_COMMIT_SHA"] = Some("CF_PAGES_COMMIT_SHA")
  /\ last.res[1].deployId = Some("DEPLOY_ID")
  /\ last.res[1].gitSha = Some("CF_PAGES_COMMIT_SHA")

(***************************************************************************)
(* AsyncSpec: the calls in flight                                          *)
(*                                                                         *)
(* A call in flight is                                                     *)
(*   path        "send" (send and the calls that go through it), "vitals"  *)
(*               or "forms" (the collectors)                               *)
(*   timeout     the duration the timer was armed with; in send, the       *)
(*               local constant `timeout`                                  *)
(*   configured  options.timeout when the call started                     *)
(*   silent      the endpoint never answers this request                   *)
(*   timer       "armed", "fired" (controller.abort() has run), "cleared"  *)
(*   pc          "fetch"  awaiting fetch(...)                              *)
(*               "json"   awaiting response.json()                         *)
(*               "text"   awaiting response.text()                         *)
(*               "done"   returned or thrown; outcome says which           *)
(*   response    the response received, bodyUsed whether its body was read *)
(*   timers      how many timers the call has armed (setTimeout)           *)
(*   requests    how many HTTP requests the call has issued (fetch)        *)
(***************************************************************************)
\* a string is the sequence of its characters
Digit(c) ==
  CASE c = "0" -> 0 [] c = "1" -> 1 [] c = "2" -> 2 [] c = "3" -> 3 [] c = "4" -> 4
    [] c = "5" -> 5 [] c = "6" -> 6 [] c = "7" -> 7 [] c = "8" -> 8 [] c = "9" -> 9
    [] OTHER -> -1

NaN == [t |-> "NaN"]
Num(n) == [t |-> "number", v |-> n]

RECURSIVE SkipSpaces(_)
SkipSpaces(s) == IF s # <<>> /\ s[1] = " " THEN SkipSpaces(Tail(s)) ELSE s

RECURSIVE DigitsValue(_, _)
\* the value of the longest prefix of digits of s, after acc; -1 when s starts with none
DigitsValue(s, acc) ==
  IF s = <<>> \/ Digit(s[1]) < 0 THEN acc
  ELSE DigitsValue(Tail(s), (IF acc < 0 THEN 0 ELSE acc) * 10 + Digit(s[1]))

\* parseInt(s, 10)
parseInt(s) ==
  LET t == SkipSpaces(s)
      neg == t # <<>> /\ t[1] = "-"
      u == IF t # <<>> /\ t[1] \in {"-", "+"} THEN Tail(t) ELSE t
      n == DigitsValue(u, -1)
  IN  IF n < 0 THEN NaN ELSE Num(IF neg THEN -n ELSE n)

\* Retry-After header values: absent, empty, seconds, an HTTP date, other text
RetryAfterHeaders ==
  { None, Some(<<>>), Some(<<"3", "0">>), Some(<<"7", "s">>), Some(<<"W", "e", "d">>) }

\* body: "json" (parses as JSON), "text" (does not), "none" (a null body)
Responses ==
  { [status |-> 200, retryAfter |-> None, body |-> "json"] }
  \cup { [status |-> 429, retryAfter |-> h, body |-> "text"] : h \in RetryAfterHeaders }
  \cup { [status |-> st, retryAfter |-> None, body |-> b] :
           st \in {500}, b \in {"json", "text", "none"} }

\* the collectors read neither the headers nor the body
CollectResponses ==
  { r \in Responses : r.retryAfter = None /\ r.body \in {"json", "text"} }
  \cup { [status |-> 429, retryAfter |-> None, body |-> "text"] }

\* the timeouts init() sets while calls are in flight
AsyncTimeouts == {None, Some(0)}

\* response.ok
Ok(response) == response.status >= 200 /\ response.status < 300

\* send, lines 285-310: what follows the arrival of the response
sendOnResponse(response) ==
  IF ~Ok(response)
    THEN IF response.status = 429
      THEN [next |-> "throw",
            error |-> RateLimitError(IF response.retryAfter # None /\ response.retryAfter[1] # <<>>
                                       THEN Some(parseInt(response.retryAfter[1]))
                                       ELSE None)]
      ELSE [next |-> "json"]
    ELSE [next |-> "return"]

\* the collectors: what follows the arrival of the response
collectOnResponse(response) ==
  IF ~Ok(response)
    THEN [next |-> "throw", error |-> ApiError(response.status, Some(response), None)]
    ELSE [next |-> "return"]

\* send, lines 311-333: the catch block
sendCatch(error, timeout) ==
  IF error.name \in {"ConfigurationError", "ApiError", "RateLimitError"} THEN error
  ELSE IF error.name = "AbortError" THEN TimeoutError(timeout)
  ELSE IF error.name = "TypeError" THEN NetworkError(error)
  ELSE error

\* the error a call on `path` ends with when `error` is thrown inside its try
Propagate(path, error, timeout) ==
  IF path = "send" THEN sendCatch(error, timeout) ELSE error

\* one argument for each call: the steps after the first await do not read it
AsyncArguments(op) ==
  CASE op = "send" -> { [payload |-> [website |-> Some("w")], type |-> None] }
    [] op = "trackVital" -> { [metric |-> Some("LCP"), value |-> Some(1), rating |-> Some("good")] }
    [] op = "trackVitalsBatch" -> { [vitals |-> <<>>] }
    [] op = "trackForm" ->
         { [eventType |-> Some("start"), formId |-> Some("f"), urlPath |-> Some("/s")] }
    [] op = "trackFormBatch" -> { [events |-> <<>>] }

CallIds == 1..MaxCalls

InFlight(c) == c.pc \in {"fetch", "json", "text"}

\* clearTimeout at the end of the try block instead of in a finally block
Finish_ClearsOnReturnOnly(c, outcome) ==
  [c EXCEPT !.pc = "done", !.timer = (IF outcome.kind = "return" THEN "cleared" ELSE @),
            !.outcome = Some(outcome)]

\* the finally block: clearTimeout(timeoutId)
Finish(c, outcome) == [c EXCEPT !.pc = "done", !.timer = "cleared", !.outcome = Some(outcome)]

Throw(c, error) ==
  Finish(c, [kind |-> "throw", error |-> Propagate(c.path, error, c.timeout)])

Return(c) == Finish(c, [kind |-> "return", response |-> c.response[1]])

\* a call starts: its synchronous part runs
Start(i, op) ==
  /\ ~InFlight(calls[i])
  /\ \E a \in AsyncArguments(op) : \E silent \in BOOLEAN :
       LET res == Invoke(op, a, options, properties)
       IN  /\ properties' = res.properties
           /\ calls' = [calls EXCEPT ![i] =
                IF res.kind = "throw"
                  THEN [pc |-> "done", path |-> "none", timeout |-> 0,
                        configured |-> options.timeout, silent |-> FALSE,
                        timer |-> "none", response |-> None, bodyUsed |-> FALSE,
                        timers |-> 0, requests |-> 0,
                        outcome |-> Some([kind |-> "throw", error |-> res.error[1]])]
                  ELSE [pc |-> "fetch", path |-> res.request[1].path,
                        timeout |-> res.timer[1], configured |-> options.timeout,
                        silent |-> silent, timer |-> "armed", response |-> None,
                        bodyUsed |-> FALSE, timers |-> 1, requests |-> 1,
                        outcome |-> None]]
  /\ UNCHANGED <<options, deploymentInfo, env, last>>

\* the timer's callback: controller.abort()
TimerFire(i) ==
  /\ InFlight(calls[i])
  /\ calls[i].timer = "armed"
  /\ calls' = [calls EXCEPT ![i].timer = "fired"]
  /\ UNCHANGED <<options, properties, deploymentInfo, env, last>>

\* the aborted fetch rejects
FetchAborted(i) ==
  /\ calls[i].pc = "fetch"
  /\ calls[i].timer = "fired"
  /\ calls' = [calls EXCEPT ![i] = Throw(@, AbortError)]
  /\ UNCHANGED <<options, properties, deploymentInfo, env, last>>

\* fetch rejects: the transport failed
FetchFailed(i) ==
  /\ calls[i].pc = "fetch"
  /\ calls[i].timer = "armed"
  /\ ~calls[i].silent
  /\ calls' = [calls EXCEPT ![i] = Throw(@, TypeError("fetch failed"))]
  /\ UNCHANGED <<options, properties, deploymentInfo, env, last>>

\* the response arrives before the timer fires
Respond(i) ==
  /\ calls[i].pc = "fetch"
  /\ calls[i].timer = "armed"
  /\ ~calls[i].silent
  /\ \E response \in (IF calls[i].path = "send" THEN Responses ELSE CollectResponses) :
       LET c == [calls[i] EXCEPT !.response = Some(response)]
           r == IF c.path = "send" THEN sendOnResponse(response)
                ELSE collectOnResponse(response)
       IN  calls' = [calls EXCEPT ![i] =
             CASE r.next = "return" -> Return(c)
               [] r.next = "throw" -> Throw(c, r.error)
               [] r.next = "json" -> [c EXCEPT !.pc = "json"]]
  /\ UNCHANGED <<options, properties, deploymentInfo, env, last>>

\* response.json() settles.  It reads the body to its end and parses it; when
\* the timer has fired the read of a body is aborted.
ReadJson(i) ==
  /\ calls[i].pc = "json"
  /\ LET c == calls[i]
         response == c.response[1]
     IN  calls' = [calls EXCEPT ![i] =
           IF response.body = "json" /\ c.timer = "armed"
             THEN Throw([c EXCEPT !.bodyUsed = TRUE],
                        ApiError(response.status, Some(response), Some("json")))
             ELSE [c EXCEPT !.pc = "text", !.bodyUsed = (response.body # "none")]]
  /\ UNCHANGED <<options, properties, deploymentInfo, env, last>>

\* response.text() settles.  A body that was read already cannot be read
\* again: the platform rejects with a TypeError, or with the abort when the
\* request was aborted.
ReadText(i) ==
  /\ calls[i].pc = "text"
  /\ LET c == calls[i]
         response == c.response[1]
     IN  \E e \in {TypeError("Body is unusable")} \cup
                  (IF c.timer = "fired" THEN {AbortError} ELSE {}) :
           calls' = [calls EXCEPT ![i] =
             IF c.bodyUsed
               THEN Throw(c, e)
               ELSE Throw(c, ApiError(response.status, Some(response), Some("text")))]
  /\ UNCHANGED <<options, properties, deploymentInfo, env, last>>

\* init({ timeout }) between the steps of the calls
AsyncInitTimeout ==
  /\ \E t \in AsyncTimeouts : options' = initOptions(options, [timeout |-> t])
  /\ UNCHANGED <<properties, deploymentInfo, env, calls, last>>

AsyncInit ==
  /\ env = NoEnv
  /\ \E o \in OptionObjects :
       /\ Get(o, "hostUrl") # None
       /\ Get(o, "websiteId") # None
       /\ Get(o, "sessionId") = None
       /\ Get(o, "timeout") \in AsyncTimeouts
       /\ "timeout" \in DOMAIN o
       /\ options = Constructor(env, o)
  /\ properties = <<>>
  /\ deploymentInfo = detectDeploymentInfo(env)
  /\ calls = [i \in CallIds |-> Idle]
  /\ last = NoCall

StartSend == \E i \in CallIds : Start(i, "send")
StartTrackVital == \E i \in CallIds : Start(i, "trackVital")
StartTrackVitalsBatch == \E i \in CallIds : Start(i, "trackVitalsBatch")
StartTrackForm == \E i \in CallIds : Start(i, "trackForm")
StartTrackFormBatch == \E i \in CallIds : Start(i, "trackFormBatch")
TimerFires == \E i \in CallIds : TimerFire(i)
FetchAborts == \E i \in CallIds : FetchAborted(i)
FetchFails == \E i \in CallIds : FetchFailed(i)
Responds == \E i \in CallIds : Respond(i)
ReadsJson == \E i \in CallIds : ReadJson(i)
ReadsText == \E i \in CallIds : ReadText(i)

AsyncNext ==
  \/ AsyncInitTimeout
  \/ StartSend
  \/ StartTrackVital
  \/ StartTrackVitalsBatch
  \/ StartTrackForm
  \/ StartTrackFormBatch
  \/ TimerFires
  \/ FetchAborts
  \/ FetchFails
  \/ Responds
  \/ ReadsJson
  \/ ReadsText

\* the event loop runs every timer callback and every continuation that is due
AsyncFairness ==
  \A i \in CallIds :
    /\ WF_vars(TimerFire(i))
    /\ WF_vars(FetchAborted(i))
    /\ WF_vars(ReadJson(i))
    /\ WF_vars(ReadText(i))

AsyncSpec == AsyncInit /\ [][AsyncNext]_vars /\ AsyncFairness

(***************************************************************************)
(* ConcurrentSpec: several calls in flight together on one client          *)
(***************************************************************************)
ConcurrentIds == 1..MaxConcurrent

\* the calls that arm a timer themselves
TimerOps == {"send", "trackVital", "trackVitalsBatch", "trackForm", "trackFormBatch"}

\* a client that can send, and one that has no hostUrl yet
ConcurrentInit ==
  /\ env = NoEnv
  /\ \E o \in {[hostUrl |-> Some("h"), websiteId |-> Some("w")], [websiteId |-> Some("w")]} :
       options = Constructor(env, o)
  /\ properties = <<>>
  /\ deploymentInfo = detectDeploymentInfo(env)
  /\ calls = [i \in ConcurrentIds |-> Idle]
  /\ last = NoCall

\* a new call is written in the first slot that holds no call in flight
ConcurrentStart ==
  \E i \in ConcurrentIds : \E op \in TimerOps :
    /\ \A j \in 1..(i - 1) : InFlight(calls[j])
    /\ Start(i, op)

ConcurrentTimerFires == \E i \in ConcurrentIds : TimerFire(i)
ConcurrentFetchAborts == \E i \in ConcurrentIds : FetchAborted(i)
ConcurrentFetchFails == \E i \in ConcurrentIds : FetchFailed(i)
ConcurrentResponds == \E i \in ConcurrentIds : Respond(i)
ConcurrentReadsJson == \E i \in ConcurrentIds : ReadJson(i)
ConcurrentReadsText == \E i \in ConcurrentIds : ReadText(i)

ConcurrentNext ==
  \/ ConcurrentStart
  \/ ConcurrentTimerFires
  \/ ConcurrentFetchAborts
  \/ ConcurrentFetchFails
  \/ ConcurrentResponds
  \/ ConcurrentReadsJson
  \/ ConcurrentReadsText

ConcurrentSpec == ConcurrentInit /\ [][ConcurrentNext]_vars

(***************************************************************************)
(* Claims about concurrent calls (checked under ConcurrentSpec)            *)
(***************************************************************************)
Started(c) == c.pc # "idle"

\* C13: every call arms one timer and issues at most one HTTP request (none of
\* either when it fails before its try block); when it has returned or thrown
\* its timer is cleared; so once no call is in flight no timer is armed,
\* whatever the interleaving was.
C13_TimersCleared ==
  /\ \A i \in ConcurrentIds :
       Started(calls[i]) =>
         /\ calls[i].timers <= 1
         /\ calls[i].requests <= calls[i].timers
         /\ InFlight(calls[i]) => (calls[i].timers = 1 /\ calls[i].timer \in {"armed", "fired"})
         /\ calls[i].pc = "done" =>
              calls[i].timer = (IF calls[i].timers = 1 THEN "cleared" ELSE "none")
  /\ (\A i \in ConcurrentIds : ~InFlight(calls[i]))
       => \A i \in ConcurrentIds : Started(calls[i]) => calls[i].timer \notin {"armed", "fired"}

\* two calls were in flight together; one threw from its try block, the other
\* returned, and both timers are cleared
C13_Witness ==
  /\ calls[1].pc = "done"
  /\ calls[2].pc = "done"
  /\ calls[1].path = "vitals"
  /\ calls[1].outcome[1].kind = "throw"
  /\ calls[1].timer = "cleared"
  /\ calls[2].path = "send"
  /\ calls[2].outcome[1].kind = "return"
  /\ calls[2].timer = "cleared"

(***************************************************************************)
(* Claims about the calls in flight (checked under AsyncSpec)              *)
(***************************************************************************)
SendDone(c) == c.pc = "done" /\ c.path = "send" /\ c.response # None

\* C5: every 429 response makes send fail with a rate-limit error whose
\* retry-after is the Retry-After header parsed as an integer when the header
\* is present and parseable, and is absent otherwise.
C5_RateLimit ==
  \A i \in CallIds :
    (SendDone(calls[i]) /\ calls[i].response[1].status = 429)
      => LET h == calls[i].response[1].retryAfter
             parseable == h # None /\ parseInt(h[1]) # NaN
         IN  /\ calls[i].outcome[1].kind = "throw"
             /\ calls[i].outcome[1].error =
                  RateLimitError(IF parseable THEN Some(parseInt(h[1])) ELSE None)

\* C6: every non-ok response other than 429 makes send fail with an API error
\* carrying the status, the response and the body, parsed as JSON or else as
\* text, whether or not the timer fires while the body is read.
C6_ApiError ==
  \A i \in CallIds :
    (SendDone(calls[i]) /\ ~Ok(calls[i].response[1]) /\ calls[i].response[1].status # 429)
      => LET response == calls[i].response[1]
         IN  calls[i].outcome[1] =
               [kind |-> "throw",
                error |-> ApiError(response.status, Some(response),
                                   Some(IF response.body = "json" THEN "json" ELSE "text"))]

\* the timeout error the claim expects of call c
ConfiguredTimeout(c) == IF c.configured = None THEN DEFAULT_TIMEOUT ELSE c.configured[1]

TimedOut(c) ==
  /\ c.pc = "done"
  /\ c.timer = "cleared"
  /\ c.outcome = Some([kind |-> "throw", error |-> TimeoutError(ConfiguredTimeout(c))])

AwaitingFetch(c) == c.pc = "fetch" /\ c.path = "send"

\* C7: when the timer of a send fires before the response arrives, the call
\* fails with the timeout error whose duration is the timeout configured when
\* the call started (10000 when none was); a send to an endpoint that never
\* answers always ends, with that error.
C7_Timeout ==
  /\ [][\A i \in CallIds :
          (AwaitingFetch(calls[i]) /\ calls[i].timer = "fired")
            => (calls'[i] = calls[i] \/ TimedOut(calls'[i]))]_vars
  /\ \A i \in CallIds :
       (AwaitingFetch(calls[i]) /\ calls[i].silent) ~> TimedOut(calls[i])

C7_Witness ==
  \E i \in CallIds :
    /\ TimedOut(calls[i])
    /\ calls[i].path = "send"
    /\ calls[i].silent
    /\ calls[i].configured = Some(0)
    /\ calls[i].outcome[1].error.timeoutMs = 0
    /\ options.timeout = None

AwaitingCollect(c) == c.pc = "fetch" /\ c.path \in {"vitals", "forms"}

\* C15: when the timer of trackVital, trackVitalsBatch, trackForm or
\* trackFormBatch fires before the response arrives, the call fails with the
\* timeout error carrying the duration the timer was armed with, which
\* isTimeoutError recognises.
C15_CollectorTimeout ==
  [][\A i \in CallIds :
       (AwaitingCollect(calls[i]) /\ calls[i].timer = "fired")
         => \/ calls'[i] = calls[i]
            \/ /\ calls'[i].pc = "done"
               /\ calls'[i].outcome[1].kind = "throw"
               /\ isTimeoutError(calls'[i].outcome[1].error)
               /\ calls'[i].outcome[1].error = TimeoutError(calls[i].timeout)]_vars
====
